---- MODULE Spec2Model ----
(***************************************************************************)
(* Poincare disk playground: the coordinate transforms of                  *)
(* PoincareDiskGeometry, the point/line store of PoincareGraph and the     *)
(* event handlers of PoincareInteraction.                                  *)
(*                                                                         *)
(* Numbers.  A JavaScript number is modelled as a fixed-point integer in   *)
(* units of 1/Q (three decimal digits), with one value for +-Infinity and  *)
(* one for NaN.  Screen coordinates are whole pixels.  Every quotient is   *)
(* rounded to the nearest unit, as a float operation rounds to the nearest *)
(* representable number.                                                   *)
(***************************************************************************)
EXTENDS Integers, Sequences, FiniteSets, TLC

VARIABLES
    points,                       \* PoincareGraph.points: sequence of point identities
    lines,                        \* PoincareGraph.lines: sequence of [start, end] identities
    coord,                        \* the x, y fields of every HyperbolicPoint object
    nextId,                       \* identity the next `{type: 'Hyperbolic', ...}` literal gets
    mode,                         \* PoincareInteraction.mode
    shiftKeyPressed,              \* PoincareInteraction.shiftKeyPressed
    firstSelectedPoint,           \* PoincareInteraction.firstSelectedPoint
    editingPoints,                \* PoincareInteraction.editingPoints
    hoveredPoint,                 \* PoincareInteraction.hoveredPoint
    currentMousePosition,         \* PoincareInteraction.currentMousePosition
    translatingPoints,            \* PoincareInteraction.translatingPoints (coordinate copies)
    originalNormalizedMousePoint, \* PoincareInteraction.originalNormalizedMousePoint
    observed,                     \* what the last onStateChange() / draw() call saw of the graph
    call,                         \* the operation that produced this state, its arguments and result
    visited,                      \* findConnectedComponents: the Set `visited`, in insertion order
    stack,                        \* findConnectedComponents: the array `stack`
    commits                       \* translations committed so far

vars == <<points, lines, coord, nextId, mode, shiftKeyPressed, firstSelectedPoint,
          editingPoints, hoveredPoint, currentMousePosition, translatingPoints,
          originalNormalizedMousePoint, observed, call, visited, stack, commits>>

graphVars == <<points, lines, coord, nextId>>
uiVars == <<mode, shiftKeyPressed, firstSelectedPoint, editingPoints, hoveredPoint,
            currentMousePosition, translatingPoints, originalNormalizedMousePoint>>
dfsVars == <<visited, stack, commits>>

----------------------------------------------------------------------------
(* Number representation *)

Q == 1000

Infinity == 1000000000

NaN == 2000000000

IsFinite(a) == a > -Infinity /\ a < Infinity

Abs(a) == IF a < 0 THEN -a ELSE a

Min(a, b) == IF a < b THEN a ELSE b

\* a / b rounded to the nearest integer, b # 0
RDiv(a, b) ==
    LET n == Abs(a)
        d == Abs(b)
        q == (n \div d) + (IF 2 * (n % d) >= d THEN 1 ELSE 0)
    IN  IF (a < 0) = (b < 0) THEN q ELSE -q

RECURSIVE SqrtIter(_, _, _)
SqrtIter(n, lo, hi) ==
    IF lo >= hi THEN lo
    ELSE LET mid == (lo + hi + 1) \div 2
         IN  IF mid * mid <= n THEN SqrtIter(n, mid, hi) ELSE SqrtIter(n, lo, mid - 1)

\* floor of the square root of n >= 0
ISqrt(n) == SqrtIter(n, 0, 46340)

\* Math.sqrt on a value held in units of 1/Q^2, result in units of 1/Q,
\* rounded to the nearest unit; NaN for a negative argument
Sqrt(n) ==
    IF n < 0 THEN NaN
    ELSE LET s == ISqrt(n) IN IF n - s * s > s THEN s + 1 ELSE s

\* Math.tanh at the knots, both columns in units of 1/Q; beyond the last
\* knot the rounded value is 1
TanhKnots ==
    << <<0, 0>>, <<250, 245>>, <<500, 462>>, <<750, 635>>, <<1000, 762>>,
       <<1250, 848>>, <<1500, 905>>, <<1750, 941>>, <<2000, 964>>, <<2250, 978>>,
       <<2500, 987>>, <<2750, 992>>, <<3000, 995>>, <<3500, 998>>, <<4000, 999>>,
       <<4500, 1000>> >>

\* the value at x of the line through (x0, y0) and (x1, y1)
Interpolate(x, x0, y0, x1, y1) == y0 + RDiv((y1 - y0) * (x - x0), x1 - x0)

\* the line through two neighbouring knots, from column `from` to column `to`
BetweenKnots(x, lower, upper, from, to) ==
    Interpolate(x, lower[from], lower[to], upper[from], upper[to])

\* the knot whose segment holds x in the given column
KnotBelow(knots, x, column) ==
    CHOOSE j \in 1..(Len(knots) - 1) : knots[j][column] <= x /\ x < knots[j + 1][column]

Segment(knots, x, j, from, to) == BetweenKnots(x, knots[j], knots[j + 1], from, to)

PiecewiseLinear(knots, x, from, to) == Segment(knots, x, KnotBelow(knots, x, from), from, to)

TanhPos(h) ==
    IF h >= TanhKnots[Len(TanhKnots)][1] THEN Q ELSE PiecewiseLinear(TanhKnots, h, 1, 2)

\* Math.tanh
Tanh(h) == IF h < 0 THEN -TanhPos(-h) ELSE TanhPos(h)

AtanhPos(k) == PiecewiseLinear(TanhKnots, k, 2, 1)

PI == 3142

\* Math.atan on [0, 1]: z * (PI/4 + 0.273 * (1 - z)), within 0.004 rad
AtanUnit(z) == RDiv(z * (RDiv(PI, 4) + RDiv(273 * (Q - z), Q)), Q)

\* Math.atan2, in (-PI, PI]
Atan2(y, x) ==
    IF x = NaN \/ y = NaN THEN NaN
    ELSE IF x = 0 /\ y = 0 THEN 0
    ELSE LET ax == Abs(x)
             ay == Abs(y)
             base == IF ax >= ay THEN AtanUnit(RDiv(ay * Q, ax))
                     ELSE RDiv(PI, 2) - AtanUnit(RDiv(ax * Q, ay))
             half == IF x < 0 THEN PI - base ELSE base
         IN  IF y < 0 THEN -half ELSE half

\* Math.atanh: +-Infinity at +-1, NaN outside [-1, 1]
Atanh(k) ==
    IF Abs(k) > Q THEN NaN
    ELSE IF k = Q THEN Infinity
    ELSE IF k = -Q THEN -Infinity
    ELSE IF k < 0 THEN -AtanhPos(-k) ELSE AtanhPos(k)

----------------------------------------------------------------------------
(* types.ts *)

Undefined == [type |-> "undefined", x |-> 0, y |-> 0]

\* `undefined` where a HyperbolicPoint identity is expected; identities count from 1
NoPoint == 0

ScreenPoint(x, y) == [type |-> "Screen", x |-> x, y |-> y]

NormalizedPoint(x, y) == [type |-> "Normalized", x |-> x, y |-> y]

HyperbolicPoint(x, y) == [type |-> "Hyperbolic", x |-> x, y |-> y]

----------------------------------------------------------------------------
(* PoincareDiskGeometry *)

\* xp = xb / (1 + root), yp = yb / (1 + root)
BeltramiKleinToPoincare(xb, yb, root) ==
    IF root = NaN THEN NormalizedPoint(NaN, NaN)
    ELSE NormalizedPoint(RDiv(xb * Q, Q + root), RDiv(yb * Q, Q + root))

\* the Poincare point of the Beltrami-Klein point (xb, yb)
FromBeltramiKlein(xb, yb) == BeltramiKleinToPoincare(xb, yb, Sqrt(Q * Q - xb * xb - yb * yb))

getNormalizedPointFromHyperbolicPoint(point) == FromBeltramiKlein(Tanh(point.x), Tanh(point.y))

\* mutant: the singularity test looks at x only
getHyperbolicPointFromNormalizedPoint_xOnly(point) ==
    LET xp == point.x
        yp == point.y
    IN  IF xp = 0 THEN Undefined
        ELSE LET halfDen == RDiv(Q * Q + xp * xp + yp * yp, 2)
                 xb == RDiv(xp * Q * Q, halfDen)
                 yb == RDiv(yp * Q * Q, halfDen)
             IN  HyperbolicPoint(Atanh(xb), Atanh(yb))

getHyperbolicPointFromNormalizedPoint(point) ==
    LET xp == point.x
        yp == point.y
        rp == Sqrt(xp * xp + yp * yp)
    IN  \* a NaN coordinate makes rp NaN: rp === 0 is false and atanh(NaN) is NaN
        IF xp = NaN \/ yp = NaN THEN HyperbolicPoint(NaN, NaN)
        ELSE IF rp = 0 THEN Undefined
        ELSE \* rb = 2 rp / (1 + rp^2) and xb = xp / rp * rb, so
             \* xb = xp / ((1 + rp^2) / 2), evaluated with one rounding
             LET halfDen == RDiv(Q * Q + xp * xp + yp * yp, 2)
                 xb == RDiv(xp * Q * Q, halfDen)
                 yb == RDiv(yp * Q * Q, halfDen)
             IN  HyperbolicPoint(Atanh(xb), Atanh(yb))

\* largest |a|, |b| of the orthogonal circle the 32-bit evaluation can carry
\* (circles up to 20 disk radii away); beyond it the arc is reported as NaN
ArcLimit == 40000

NaNArc ==
    [center |-> NormalizedPoint(NaN, NaN), radius |-> NaN,
     startAngle |-> NaN, endAngle |-> NaN, isStraight |-> FALSE]

\* mutant: the angles are never exchanged
ArcOfCircle_noSwap(cx, cy, radius, angleStart, angleEnd0) ==
    LET angleEnd == IF angleEnd0 < angleStart THEN angleEnd0 + 2 * PI ELSE angleEnd0
    IN  [center |-> NormalizedPoint(cx, cy),
         radius |-> radius,
         startAngle |-> angleStart,
         endAngle |-> angleEnd,
         isStraight |-> FALSE]

\* the return statement: the angles normalised so that the arc is the minor one
ArcOfCircle(cx, cy, radius, angleStart, angleEnd0) ==
    LET angleEnd == IF angleEnd0 < angleStart THEN angleEnd0 + 2 * PI ELSE angleEnd0
        swap == angleEnd - angleStart > PI
    IN  [center |-> NormalizedPoint(cx, cy),
         radius |-> radius,
         startAngle |-> IF swap THEN angleEnd ELSE angleStart,
         endAngle |-> IF swap THEN angleStart ELSE angleEnd,
         isStraight |-> FALSE]

\* mutant: the radius is the distance of the centre from the origin
ArcOfCoefficients_noMinusOne(u1, u2, v1, v2, a, b) ==
    IF Abs(a) > ArcLimit \/ Abs(b) > ArcLimit THEN NaNArc
    ELSE ArcOfCircle(RDiv(-a, 2), RDiv(-b, 2),
                     Sqrt(RDiv(a, 2) * RDiv(a, 2) + RDiv(b, 2) * RDiv(b, 2)),
                     Atan2(u2 - RDiv(-b, 2), u1 - RDiv(-a, 2)),
                     Atan2(v2 - RDiv(-b, 2), v1 - RDiv(-a, 2)))

\* centre, radius and end angles of the circle x^2 + y^2 + a x + b y + 1 = 0
ArcOfCoefficients(u1, u2, v1, v2, a, b) ==
    IF Abs(a) > ArcLimit \/ Abs(b) > ArcLimit THEN NaNArc
    ELSE ArcOfCircle(RDiv(-a, 2), RDiv(-b, 2),
                     Sqrt(RDiv(a, 2) * RDiv(a, 2) + RDiv(b, 2) * RDiv(b, 2) - Q * Q),
                     Atan2(u2 - RDiv(-b, 2), u1 - RDiv(-a, 2)),
                     Atan2(v2 - RDiv(-b, 2), v1 - RDiv(-a, 2)))

\* the arc through the normalized points (u1, u2), (v1, v2) with determinant d
\* (d in units of 1/Q^2)
ArcOfDeterminant(u1, u2, v1, v2, d) ==
    \* Math.abs(d) < 1e-10 is below one unit of d
    IF d = 0
    THEN [center |-> NormalizedPoint(0, 0), radius |-> Infinity,
          startAngle |-> Atan2(u2, u1), endAngle |-> Atan2(v2, v1),
          isStraight |-> TRUE]
    ELSE LET uSq1 == u1 * u1 + u2 * u2 + Q * Q
             vSq1 == v1 * v1 + v2 * v2 + Q * Q
         IN  ArcOfCoefficients(u1, u2, v1, v2,
                               RDiv(u2 * vSq1, d) - RDiv(v2 * uSq1, d),
                               RDiv(v1 * uSq1, d) - RDiv(u1 * vSq1, d))

\* the arc through the normalized points u and v
ArcOfNormalized(u, v) ==
    IF u.x = NaN \/ v.x = NaN THEN NaNArc
    ELSE ArcOfDeterminant(u.x, u.y, v.x, v.y, u.x * v.y - u.y * v.x)

\* the arc of the line whose endpoints have the hyperbolic coordinates startH, endH
getNormalizedArcFromHyperbolicLine(startH, endH) ==
    ArcOfNormalized(getNormalizedPointFromHyperbolicPoint(startH),
                    getNormalizedPointFromHyperbolicPoint(endH))

\* canvas.getBoundingClientRect(): right and bottom of a DOMRect
RectRight(rect) == rect.left + rect.width

RectBottom(rect) == rect.top + rect.height

\* mutant: the vertical axis is not negated
getNormalizedPointFromScreenPoint_noFlip(point, rect) ==
    IF \/ point.x < rect.left
       \/ point.x > RectRight(rect)
       \/ point.y < rect.top
       \/ point.y > RectBottom(rect)
    THEN Undefined
    ELSE LET centerX2 == 2 * rect.left + rect.width
             centerY2 == 2 * rect.top + rect.height
             scaleFactor2 == Min(rect.width, rect.height)
             nx == RDiv((2 * point.x - centerX2) * Q, scaleFactor2)
             ny == RDiv((2 * point.y - centerY2) * Q, scaleFactor2)
         IN  IF nx * nx + ny * ny > Q * Q THEN Undefined
             ELSE NormalizedPoint(nx, ny)

\* mutant: the unit disk test is missing
getNormalizedPointFromScreenPoint_noDiskTest(point, rect) ==
    IF \/ point.x < rect.left
       \/ point.x > RectRight(rect)
       \/ point.y < rect.top
       \/ point.y > RectBottom(rect)
    THEN Undefined
    ELSE NormalizedPoint(
             RDiv((2 * point.x - (2 * rect.left + rect.width)) * Q,
                  Min(rect.width, rect.height)),
             -RDiv((2 * point.y - (2 * rect.top + rect.height)) * Q,
                   Min(rect.width, rect.height)))

getNormalizedPointFromScreenPoint(point, rect) ==
    IF \/ point.x < rect.left
       \/ point.x > RectRight(rect)
       \/ point.y < rect.top
       \/ point.y > RectBottom(rect)
    THEN Undefined
    ELSE LET centerX2 == 2 * rect.left + rect.width      \* 2 * centerX, in pixels
             centerY2 == 2 * rect.top + rect.height      \* 2 * centerY, in pixels
             scaleFactor2 == Min(rect.width, rect.height) \* 2 * scaleFactor, in pixels
             nx == RDiv((2 * point.x - centerX2) * Q, scaleFactor2)
             ny == -RDiv((2 * point.y - centerY2) * Q, scaleFactor2)
         IN  IF nx * nx + ny * ny > Q * Q THEN Undefined
             ELSE NormalizedPoint(nx, ny)

----------------------------------------------------------------------------
(* PoincareGraph *)

Range(seq) == { seq[i] : i \in 1..Len(seq) }

Line(start, end) == [start |-> start, end |-> end]

RECURSIVE Filter(_, _)
\* Array.prototype.filter: the elements of seq that are in keep, in order
Filter(seq, keep) ==
    IF seq = <<>> THEN <<>>
    ELSE IF Head(seq) \in keep THEN <<Head(seq)>> \o Filter(Tail(seq), keep)
    ELSE Filter(Tail(seq), keep)

\* mutant: a point that is already stored is not stored again
addPoint_dedup(ps, point) == IF point \in Range(ps) THEN ps ELSE Append(ps, point)

addPoint(ps, point) == Append(ps, point)

addLine(ls, start, end) == Append(ls, Line(start, end))

\* mutant: the cascade looks at line.start only
removePoint_startOnly(ps, ls, point) ==
    [points |-> Filter(ps, { p \in Range(ps) : p # point }),
     lines |-> Filter(ls, { line \in Range(ls) : line.start # point })]

\* mutant: the points from the first occurrence of point on are all dropped
removePoint_truncate(ps, ls, point) ==
    [points |-> IF point \in Range(ps)
                THEN SubSeq(ps, 1, (CHOOSE i \in 1..Len(ps) :
                                       /\ ps[i] = point
                                       /\ \A j \in 1..(i - 1) : ps[j] # point) - 1)
                ELSE ps,
     lines |-> Filter(ls, { line \in Range(ls) : line.start # point /\ line.end # point })]

\* removePoint: the two filters, as [points, lines]
removePoint(ps, ls, point) ==
    [points |-> Filter(ps, { p \in Range(ps) : p # point }),
     lines |-> Filter(ls, { line \in Range(ls) : line.start # point /\ line.end # point })]

\* mutant: only the first element of pointsToRemove is removed
removePoints_firstOnly(ps, ls, pointsToRemove) ==
    LET pointSet == IF pointsToRemove = <<>> THEN {} ELSE {Head(pointsToRemove)}
    IN  [points |-> Filter(ps, { p \in Range(ps) : p \notin pointSet }),
         lines |-> Filter(ls, { line \in Range(ls) :
                                    line.start \notin pointSet /\ line.end \notin pointSet })]

\* mutant: the lines are left alone
removePoints_pointsOnly(ps, ls, pointsToRemove) ==
    [points |-> Filter(ps, { p \in Range(ps) : p \notin Range(pointsToRemove) }),
     lines |-> ls]

\* removePoints: the two filters against the Set of pointsToRemove
removePoints(ps, ls, pointsToRemove) ==
    LET pointSet == Range(pointsToRemove)
    IN  [points |-> Filter(ps, { p \in Range(ps) : p \notin pointSet }),
         lines |-> Filter(ls, { line \in Range(ls) :
                                    line.start \notin pointSet /\ line.end \notin pointSet })]

DISTANCE_THRESHOLD == 30

\* mutant: distance <= threshold
DistanceBelow_inclusive(ax, ay, bx, by, threshold) ==
    /\ ax # NaN /\ ay # NaN /\ bx # NaN /\ by # NaN
    /\ (ax - bx) * (ax - bx) + (ay - by) * (ay - by) <= threshold * threshold

\* Math.sqrt(dx^2 + dy^2) < threshold, decided on the squares so that the
\* rounding of the root cannot move the comparison; false when NaN is involved
DistanceBelow(ax, ay, bx, by, threshold) ==
    /\ ax # NaN /\ ay # NaN /\ bx # NaN /\ by # NaN
    /\ (ax - bx) * (ax - bx) + (ay - by) * (ay - by) < threshold * threshold

RECURSIVE findPointNear(_, _, _)
\* the first point of ps, in order, closer than DISTANCE_THRESHOLD; NoPoint for undefined
findPointNear(ps, co, normalizedPoint) ==
    IF ps = <<>> THEN NoPoint
    ELSE LET point == Head(ps)
             pointNormalized == getNormalizedPointFromHyperbolicPoint(co[point])
         IN  IF DistanceBelow(pointNormalized.x, pointNormalized.y,
                              normalizedPoint.x, normalizedPoint.y, DISTANCE_THRESHOLD)
             THEN point
             ELSE findPointNear(Tail(ps), co, normalizedPoint)

RECURSIVE DfsPushes_directed(_, _, _)
\* mutant: lines are followed from start to end only
DfsPushes_directed(ls, current, seen) ==
    IF ls = <<>> THEN <<>>
    ELSE LET line == Head(ls)
         IN  (IF line.start = current /\ line.end \notin seen THEN <<line.end>> ELSE <<>>)
             \o DfsPushes_directed(Tail(ls), current, seen)

RECURSIVE DfsPushes(_, _, _)
\* the lines.forEach of findConnectedComponents: what it pushes, in order
DfsPushes(ls, current, seen) ==
    IF ls = <<>> THEN <<>>
    ELSE LET line == Head(ls)
         IN  (IF line.start = current /\ line.end \notin seen THEN <<line.end>> ELSE <<>>)
             \o (IF line.end = current /\ line.start \notin seen THEN <<line.start>> ELSE <<>>)
             \o DfsPushes(Tail(ls), current, seen)

\* mutant: the top of the stack is read but not popped
DfsIteration_peek(ls, vis, stk) ==
    LET current == stk[Len(stk)]
    IN  IF current \in Range(vis) THEN [visited |-> vis, stack |-> stk]
        ELSE LET vis2 == Append(vis, current)
             IN  [visited |-> vis2,
                  stack |-> stk \o DfsPushes(ls, current, Range(vis2))]

\* one iteration of the while loop of findConnectedComponents
DfsIteration(ls, vis, stk) ==
    LET current == stk[Len(stk)]
        popped == SubSeq(stk, 1, Len(stk) - 1)
    IN  IF current \in Range(vis) THEN [visited |-> vis, stack |-> popped]
        ELSE LET vis2 == Append(vis, current)
             IN  [visited |-> vis2,
                  stack |-> popped \o DfsPushes(ls, current, Range(vis2))]

RECURSIVE DfsLoop(_, _, _)
DfsLoop(ls, vis, stk) ==
    IF stk = <<>> THEN vis
    ELSE LET it == DfsIteration(ls, vis, stk)
         IN  DfsLoop(ls, it.visited, it.stack)

\* findConnectedComponents run to its return: Array.from(visited)
findConnectedComponents(ls, startPoint) == DfsLoop(ls, <<>>, <<startPoint>>)

clear == [points |-> <<>>, lines |-> <<>>]

----------------------------------------------------------------------------
(* PoincareInteraction *)

MaxCreated == 2

MaxUiLines == 1

MaxCommits == 1

\* canvas.getBoundingClientRect() of the interaction's canvas
CanvasRect == [left |-> 0, top |-> 0, width |-> 200, height |-> 200]

HIT_THRESHOLD == 20

\* mutant: the pending first point survives every mode change
setMode_keepPending(newMode, m, fsp, ep, cmp, tp, onmp, co) ==
    LET entering == newMode = "Translate" /\ m # "Translate"
        leaving == m = "Translate" /\ newMode # "Translate"
    IN  [mode |-> newMode,
         translatingPoints |->
             IF entering THEN [i \in 1..Len(ep) |-> HyperbolicPoint(co[ep[i]].x, co[ep[i]].y)]
             ELSE IF leaving THEN <<>>
             ELSE tp,
         originalNormalizedMousePoint |->
             IF entering
             THEN (IF cmp # Undefined THEN getNormalizedPointFromScreenPoint(cmp, CanvasRect)
                   ELSE onmp)
             ELSE IF leaving THEN Undefined
             ELSE onmp,
         firstSelectedPoint |-> fsp]

\* mutant: leaving Translate mode keeps the reference mouse position
setMode_keepReference(newMode, m, fsp, ep, cmp, tp, onmp, co) ==
    LET entering == newMode = "Translate" /\ m # "Translate"
        leaving == m = "Translate" /\ newMode # "Translate"
    IN  [mode |-> newMode,
         translatingPoints |->
             IF entering THEN [i \in 1..Len(ep) |-> HyperbolicPoint(co[ep[i]].x, co[ep[i]].y)]
             ELSE IF leaving THEN <<>>
             ELSE tp,
         originalNormalizedMousePoint |->
             IF entering
             THEN (IF cmp # Undefined THEN getNormalizedPointFromScreenPoint(cmp, CanvasRect)
                   ELSE onmp)
             ELSE onmp,
         firstSelectedPoint |-> IF newMode # "Add" THEN NoPoint ELSE fsp]

\* setMode(newMode): the fields it leaves behind
setMode(newMode, m, fsp, ep, cmp, tp, onmp, co) ==
    LET entering == newMode = "Translate" /\ m # "Translate"
        leaving == m = "Translate" /\ newMode # "Translate"
    IN  [mode |-> newMode,
         translatingPoints |->
             IF entering THEN [i \in 1..Len(ep) |-> HyperbolicPoint(co[ep[i]].x, co[ep[i]].y)]
             ELSE IF leaving THEN <<>>
             ELSE tp,
         originalNormalizedMousePoint |->
             IF entering
             THEN (IF cmp # Undefined THEN getNormalizedPointFromScreenPoint(cmp, CanvasRect)
                   ELSE onmp)
             ELSE IF leaving THEN Undefined
             ELSE onmp,
         firstSelectedPoint |-> IF newMode # "Add" THEN NoPoint ELSE fsp]

\* the hit test of a straight line: the distance to the projection on the segment
StraightHit(startNormalized, endNormalized, normalizedPoint) ==
    LET ex == endNormalized.x - startNormalized.x
        ey == endNormalized.y - startNormalized.y
        lengthSq == ex * ex + ey * ey
        dot == (normalizedPoint.x - startNormalized.x) * ex
                   + (normalizedPoint.y - startNormalized.y) * ey
    IN  IF lengthSq = 0 THEN FALSE
        ELSE IF dot < 0 \/ dot > lengthSq THEN FALSE     \* t < 0 || t > 1
        ELSE LET scaled == IF RDiv(lengthSq, 100) = 0 THEN 1 ELSE RDiv(lengthSq, 100)
                 t == RDiv(dot * 10, scaled)
             IN  DistanceBelow(startNormalized.x + RDiv(t * ex, Q),
                               startNormalized.y + RDiv(t * ey, Q),
                               normalizedPoint.x, normalizedPoint.y, HIT_THRESHOLD)

\* the hit test of an arc: within the angle range and near the circle
ArcHit(arc, dx, dy) ==
    LET angle == Atan2(dy, dx)
    IN  /\ IF arc.startAngle <= arc.endAngle
           THEN angle >= arc.startAngle /\ angle <= arc.endAngle
           ELSE angle >= arc.startAngle \/ angle <= arc.endAngle
        /\ Abs(Sqrt(dx * dx + dy * dy) - arc.radius) < HIT_THRESHOLD

\* the hit test on the arc of a line with the given normalized endpoints
HitOnArc(arc, startNormalized, endNormalized, normalizedPoint) ==
    IF arc.isStraight THEN StraightHit(startNormalized, endNormalized, normalizedPoint)
    ELSE IF arc.radius = NaN THEN FALSE
    ELSE ArcHit(arc, normalizedPoint.x - arc.center.x, normalizedPoint.y - arc.center.y)

\* the Select-mode hit test of one line against the clicked normalized point
LineHit(startH, endH, normalizedPoint) ==
    HitOnArc(getNormalizedArcFromHyperbolicLine(startH, endH),
             getNormalizedPointFromHyperbolicPoint(startH),
             getNormalizedPointFromHyperbolicPoint(endH),
             normalizedPoint)

RECURSIVE clickedLineEnd(_, _, _)
\* the end of the first line that passes the hit test; NoPoint when none does
clickedLineEnd(ls, co, normalizedPoint) ==
    IF ls = <<>> THEN NoPoint
    ELSE IF LineHit(co[Head(ls).start], co[Head(ls).end], normalizedPoint) THEN Head(ls).end
    ELSE clickedLineEnd(Tail(ls), co, normalizedPoint)

RECURSIVE Dedup(_)
\* [...new Set(array)]
Dedup(seq) ==
    IF seq = <<>> THEN <<>>
    ELSE LET front == Dedup(SubSeq(seq, 1, Len(seq) - 1))
         IN  IF seq[Len(seq)] \in Range(front) THEN front ELSE Append(front, seq[Len(seq)])

\* Select-mode selection logic: the new editingPoints
selectClick(ps, ls, co, ep, shift, normalizedPoint) ==
    LET clickedPoint == findPointNear(ps, co, normalizedPoint)
        lineEnd == clickedLineEnd(ls, co, normalizedPoint)
    IN  IF clickedPoint # NoPoint
        THEN IF shift THEN findConnectedComponents(ls, clickedPoint)
             ELSE IF clickedPoint \notin Range(ep) THEN <<clickedPoint>>
             ELSE <<>>
        ELSE IF lineEnd # NoPoint
        THEN \* this.graph.lines.find(line => line.end === clickedLineEnd)
             LET clickedLine == ls[CHOOSE i \in 1..Len(ls) :
                                       /\ ls[i].end = lineEnd
                                       /\ \A j \in 1..(i - 1) : ls[j].end # lineEnd]
             IN  IF shift
                 THEN Dedup(findConnectedComponents(ls, clickedLine.start)
                                \o findConnectedComponents(ls, clickedLine.end))
                 ELSE <<clickedLine.start, clickedLine.end>>
        ELSE <<>>

\* number + number on hyperbolic coordinates: Infinity absorbs the offset
Plus(h, offset) == IF IsFinite(h) THEN h + offset ELSE h

RECURSIVE translateCommit(_, _, _, _, _)
\* the commit loop: editingPoints[i] takes translatingPoints[i] + offset, from index i on
translateCommit(co, ep, tp, offset, i) ==
    IF i > Len(ep) \/ i > Len(tp) THEN co
    ELSE translateCommit(
             [co EXCEPT ![ep[i]] = HyperbolicPoint(Plus(tp[i].x, offset.x),
                                                   Plus(tp[i].y, offset.y))],
             ep, tp, offset, i + 1)

\* mutant: a click on the pending first point itself also makes a line
addModePointClick_noDistinctTest(fsp, clickedPoint, shift) ==
    IF fsp = NoPoint THEN [line |-> FALSE, firstSelectedPoint |-> clickedPoint]
    ELSE [line |-> TRUE, firstSelectedPoint |-> IF shift THEN clickedPoint ELSE NoPoint]

\* mutant: the chain goes on without Shift
addModePointClick_chainAlways(fsp, clickedPoint, shift) ==
    IF fsp = NoPoint THEN [line |-> FALSE, firstSelectedPoint |-> clickedPoint]
    ELSE IF fsp # clickedPoint
    THEN [line |-> TRUE, firstSelectedPoint |-> clickedPoint]
    ELSE [line |-> FALSE, firstSelectedPoint |-> fsp]

\* Add mode, click on an existing point: whether a line from the pending
\* first point to the clicked point is added, and the new pending first point
addModePointClick(fsp, clickedPoint, shift) ==
    IF fsp = NoPoint THEN [line |-> FALSE, firstSelectedPoint |-> clickedPoint]
    ELSE IF fsp # clickedPoint
    THEN [line |-> TRUE, firstSelectedPoint |-> IF shift THEN clickedPoint ELSE NoPoint]
    ELSE [line |-> FALSE, firstSelectedPoint |-> fsp]

\* mutant: onStateChange() runs between the two filters of removePoints
deleteSelected_notifyEarly(ps, ls, ep) ==
    LET after == removePoints(ps, ls, ep)
    IN  [points |-> after.points, lines |-> after.lines, editingPoints |-> <<>>,
         observed |-> [points |-> after.points, lines |-> ls]]

\* the Delete / Backspace branch: removePoints, then the selection is
\* cleared, then onStateChange() shows the graph to the renderer
deleteSelected(ps, ls, ep) ==
    LET after == removePoints(ps, ls, ep)
    IN  [points |-> after.points, lines |-> after.lines, editingPoints |-> <<>>,
         observed |-> [points |-> after.points, lines |-> after.lines]]

----------------------------------------------------------------------------
(* State shared by every specification *)

EmptyGraphView == [points |-> <<>>, lines |-> <<>>]

\* what a reader of graph.points and graph.lines sees
GraphView == [points |-> points, lines |-> lines]

InitGraphEmpty ==
    /\ points = <<>>
    /\ lines = <<>>
    /\ coord = <<>>
    /\ nextId = 1

InitUi ==
    /\ mode = "Select"
    /\ shiftKeyPressed = FALSE
    /\ firstSelectedPoint = NoPoint
    /\ editingPoints = <<>>
    /\ hoveredPoint = NoPoint
    /\ currentMousePosition = Undefined
    /\ translatingPoints = <<>>
    /\ originalNormalizedMousePoint = Undefined
    /\ observed = EmptyGraphView

InitDfs ==
    /\ visited = <<>>
    /\ stack = <<>>
    /\ commits = 0

----------------------------------------------------------------------------
(* The event handlers, from the empty graph in Select mode *)

\* event.clientX / clientY of clicks and double-clicks: a place inside the
\* disk, the disk's centre, a place on the unit circle, a canvas corner
\* outside the disk and a place outside the canvas
ClickPoints ==
    { ScreenPoint(60, 100), ScreenPoint(100, 100), ScreenPoint(200, 100),
      ScreenPoint(0, 0), ScreenPoint(300, 100) }

\* event.clientX / clientY of mouse moves
MovePoints == { ScreenPoint(60, 100), ScreenPoint(0, 0) }

Keys == { "Shift", "Delete", "Backspace", "s", "T", "a", "Escape" }

\* keys whose release is observed
UpKeys == { "Shift", "Escape" }

\* event.key.toLowerCase()
toLowerCase(key) ==
    IF key = "S" THEN "s" ELSE IF key = "T" THEN "t" ELSE IF key = "A" THEN "a" ELSE key

Init ==
    /\ InitGraphEmpty
    /\ InitUi
    /\ InitDfs
    /\ call = [op |-> "init"]

Event == [op |-> "event"]

\* setMode applied to the current state, with its onStateChange()
SetMode(newMode) ==
    LET r == setMode(newMode, mode, firstSelectedPoint, editingPoints, currentMousePosition,
                     translatingPoints, originalNormalizedMousePoint, coord)
    IN  /\ mode' = r.mode
        /\ translatingPoints' = r.translatingPoints
        /\ originalNormalizedMousePoint' = r.originalNormalizedMousePoint
        /\ firstSelectedPoint' = r.firstSelectedPoint
        /\ observed' = GraphView
        /\ call' = [op |-> "setMode",
                    pendingBefore |-> firstSelectedPoint # NoPoint,
                    translationBefore |-> /\ translatingPoints # <<>>
                                          /\ originalNormalizedMousePoint # Undefined]
        /\ UNCHANGED <<graphVars, shiftKeyPressed, editingPoints, hoveredPoint,
                       currentMousePosition, dfsVars>>

\* window keydown
KeyDownOf(key) ==
    IF key = "Shift"
    THEN /\ shiftKeyPressed' = TRUE
         /\ call' = Event
         /\ UNCHANGED <<graphVars, mode, firstSelectedPoint, editingPoints, hoveredPoint,
                        currentMousePosition, translatingPoints,
                        originalNormalizedMousePoint, observed, dfsVars>>
    ELSE IF key = "Backspace" \/ key = "Delete"
    THEN IF Len(editingPoints) > 0
         THEN LET r == deleteSelected(points, lines, editingPoints)
              IN  /\ points' = r.points
                  /\ lines' = r.lines
                  /\ editingPoints' = r.editingPoints
                  /\ observed' = r.observed
                  /\ call' = [op |-> "delete", removed |-> editingPoints,
                              before |-> GraphView]
                  /\ UNCHANGED <<coord, nextId, mode, shiftKeyPressed, firstSelectedPoint,
                                 hoveredPoint, currentMousePosition, translatingPoints,
                                 originalNormalizedMousePoint, dfsVars>>
         ELSE /\ call' = Event
              /\ UNCHANGED <<graphVars, uiVars, observed, dfsVars>>
    ELSE IF toLowerCase(key) = "s" THEN SetMode("Select")
    ELSE IF toLowerCase(key) = "t" THEN SetMode("Translate")
    ELSE IF toLowerCase(key) = "a" THEN SetMode("Add")
    ELSE /\ call' = Event
         /\ UNCHANGED <<graphVars, uiVars, observed, dfsVars>>

KeyDown == \E key \in Keys : KeyDownOf(key)

\* window keyup
KeyUp ==
    \E key \in UpKeys :
        IF key = "Shift"
        THEN /\ shiftKeyPressed' = FALSE
             /\ firstSelectedPoint' = IF mode = "Add" THEN NoPoint ELSE firstSelectedPoint
             /\ observed' = GraphView
             /\ call' = Event
             /\ UNCHANGED <<graphVars, mode, editingPoints, hoveredPoint, currentMousePosition,
                            translatingPoints, originalNormalizedMousePoint, dfsVars>>
        ELSE /\ call' = Event
             /\ UNCHANGED <<graphVars, uiVars, observed, dfsVars>>

\* canvas mousemove
MouseMove ==
    \E screenPoint \in MovePoints :
        LET normalizedPoint == getNormalizedPointFromScreenPoint(screenPoint, CanvasRect)
        IN  /\ currentMousePosition' = screenPoint
            /\ hoveredPoint' =
                   IF normalizedPoint = Undefined THEN NoPoint
                   ELSE IF /\ mode = "Translate"
                           /\ Len(translatingPoints) > 0
                           /\ originalNormalizedMousePoint # Undefined
                   THEN hoveredPoint
                   ELSE findPointNear(points, coord, normalizedPoint)
            /\ observed' = GraphView
            /\ call' = Event
            /\ UNCHANGED <<graphVars, mode, shiftKeyPressed, firstSelectedPoint, editingPoints,
                           translatingPoints, originalNormalizedMousePoint, dfsVars>>

\* the offset between a normalized point and the translation's reference point
Offset(normalizedPoint, origin) ==
    [x |-> normalizedPoint.x - origin.x, y |-> normalizedPoint.y - origin.y]

\* canvas click
ClickAt(screenPoint) ==
    LET normalizedPoint == getNormalizedPointFromScreenPoint(screenPoint, CanvasRect)
        clickedPoint == findPointNear(points, coord, normalizedPoint)
    IN  IF normalizedPoint = Undefined
        THEN /\ call' = [op |-> "click", point |-> screenPoint]
             /\ UNCHANGED <<graphVars, uiVars, observed, dfsVars>>
        ELSE IF /\ mode = "Translate"
                /\ Len(translatingPoints) > 0
                /\ Len(editingPoints) > 0
                /\ originalNormalizedMousePoint # Undefined
        THEN \* apply the translation, then setMode("Select")
             LET moved == translateCommit(coord, editingPoints, translatingPoints,
                                          Offset(normalizedPoint,
                                                 originalNormalizedMousePoint), 1)
                 r == setMode("Select", mode, firstSelectedPoint, editingPoints,
                              currentMousePosition, translatingPoints,
                              originalNormalizedMousePoint, moved)
             IN  /\ commits < MaxCommits
                 /\ coord' = moved
                 /\ commits' = commits + 1
                 /\ mode' = r.mode
                 /\ translatingPoints' = r.translatingPoints
                 /\ originalNormalizedMousePoint' = r.originalNormalizedMousePoint
                 /\ firstSelectedPoint' = r.firstSelectedPoint
                 /\ observed' = GraphView
                 /\ call' = [op |-> "click", point |-> screenPoint]
                 /\ UNCHANGED <<points, lines, nextId, shiftKeyPressed, editingPoints,
                                hoveredPoint, currentMousePosition, visited, stack>>
        ELSE IF mode = "Select"
        THEN /\ editingPoints' = selectClick(points, lines, coord, editingPoints,
                                             shiftKeyPressed, normalizedPoint)
             /\ observed' = GraphView
             /\ call' = [op |-> "click", point |-> screenPoint]
             /\ UNCHANGED <<graphVars, mode, shiftKeyPressed, firstSelectedPoint,
                            hoveredPoint, currentMousePosition, translatingPoints,
                            originalNormalizedMousePoint, dfsVars>>
        ELSE IF mode = "Add" /\ clickedPoint # NoPoint
        THEN LET r == addModePointClick(firstSelectedPoint, clickedPoint, shiftKeyPressed)
             IN  /\ r.line => Len(lines) < MaxUiLines
                 /\ lines' = IF r.line
                             THEN addLine(lines, firstSelectedPoint, clickedPoint)
                             ELSE lines
                 /\ firstSelectedPoint' = r.firstSelectedPoint
                 /\ observed' = [points |-> points, lines |-> lines']
                 /\ call' = [op |-> "click", point |-> screenPoint]
                 /\ UNCHANGED <<points, coord, nextId, mode, shiftKeyPressed,
                                editingPoints, hoveredPoint, currentMousePosition,
                                translatingPoints, originalNormalizedMousePoint, dfsVars>>
        ELSE IF mode = "Add"
        THEN \* empty space: a new point, joined to the pending first point
             LET hyperbolicPoint == getHyperbolicPointFromNormalizedPoint(normalizedPoint)
             IN  IF hyperbolicPoint = Undefined
                 THEN /\ observed' = GraphView
                      /\ call' = [op |-> "click", point |-> screenPoint]
                      /\ UNCHANGED <<graphVars, uiVars, dfsVars>>
                 ELSE /\ nextId <= MaxCreated
                      /\ firstSelectedPoint # NoPoint => Len(lines) < MaxUiLines
                      /\ points' = addPoint(points, nextId)
                      /\ coord' = Append(coord, hyperbolicPoint)
                      /\ nextId' = nextId + 1
                      /\ lines' = IF firstSelectedPoint # NoPoint
                                  THEN addLine(lines, firstSelectedPoint, nextId)
                                  ELSE lines
                      /\ firstSelectedPoint' =
                             IF firstSelectedPoint # NoPoint /\ shiftKeyPressed
                             THEN nextId ELSE NoPoint
                      /\ observed' = [points |-> points', lines |-> lines']
                      /\ call' = [op |-> "click", point |-> screenPoint]
                      /\ UNCHANGED <<mode, shiftKeyPressed, editingPoints, hoveredPoint,
                                     currentMousePosition, translatingPoints,
                                     originalNormalizedMousePoint, dfsVars>>
        ELSE \* Translate mode with nothing to commit
             /\ observed' = GraphView
             /\ call' = [op |-> "click", point |-> screenPoint]
             /\ UNCHANGED <<graphVars, uiVars, dfsVars>>

Click == \E screenPoint \in ClickPoints : ClickAt(screenPoint)

\* canvas dblclick
DblClickAt(screenPoint) ==
    LET normalizedPoint == getNormalizedPointFromScreenPoint(screenPoint, CanvasRect)
        hyperbolicPoint == getHyperbolicPointFromNormalizedPoint(normalizedPoint)
    IN  IF mode # "Add" \/ normalizedPoint = Undefined \/ hyperbolicPoint = Undefined
        THEN /\ call' = [op |-> "dblclick", point |-> screenPoint]
             /\ UNCHANGED <<graphVars, uiVars, observed, dfsVars>>
        ELSE /\ nextId <= MaxCreated
             /\ points' = addPoint(points, nextId)
             /\ coord' = Append(coord, hyperbolicPoint)
             /\ nextId' = nextId + 1
             /\ observed' = [points |-> points', lines |-> lines]
             /\ call' = [op |-> "dblclick", point |-> screenPoint]
             /\ UNCHANGED <<lines, uiVars, dfsVars>>

DblClick == \E screenPoint \in ClickPoints : DblClickAt(screenPoint)

Next == KeyDown \/ KeyUp \/ MouseMove \/ Click \/ DblClick

Spec == Init /\ [][Next]_vars

----------------------------------------------------------------------------
(* PoincareGraph on bounded graph states *)

NumObjects == 4

MaxPoints == 2

MaxLines == 2

MaxDfsLines == 3

\* the HyperbolicPoint objects that exist
Objects == 1..NumObjects

\* sequences over S of length at most n
RECURSIVE SeqsUpTo(_, _)
SeqsUpTo(S, n) ==
    IF n = 0 THEN { <<>> }
    ELSE LET shorter == SeqsUpTo(S, n - 1)
         IN  shorter \cup { Append(q, e) : q \in { r \in shorter : Len(r) = n - 1 }, e \in S }

AllLines == { Line(a, b) : a \in Objects, b \in Objects }

\* object 1 at the hyperbolic origin, object 2 at normalized (0.04, 0),
\* object 3 far from both, the others at the origin again (equal
\* coordinates, different identity)
ObjectCoord ==
    [o \in Objects |->
        IF o = 2 THEN HyperbolicPoint(82, 0)
        ELSE IF o = 3 THEN HyperbolicPoint(500, -500)
        ELSE HyperbolicPoint(0, 0)]

\* targets on the x axis of normalized space: 0.02, 0.025, 0.03, 0.05, 0.5
NearTargets == { NormalizedPoint(x, 0) : x \in {20, 25, 30, 50, 500} }

InitAnyGraph(pointSeqs, maxLines) ==
    /\ points \in pointSeqs
    /\ lines \in SeqsUpTo(AllLines, maxLines)
    /\ coord = ObjectCoord
    /\ nextId = NumObjects + 1
    /\ InitUi
    /\ InitDfs
    /\ call = [op |-> "init"]

\* any points (duplicate entries included) and any lines (self-loops,
\* duplicates and endpoints that are not members included)
InitGraph == InitAnyGraph(SeqsUpTo(Objects, MaxPoints), MaxLines)

\* each behaviour is one call on the graph state drawn by Init
Fresh == call.op = "init"

AddPoint ==
    /\ Fresh
    /\ Len(points) < MaxPoints
    /\ \E p \in Objects :
          /\ points' = addPoint(points, p)
          /\ call' = [op |-> "addPoint", point |-> p, before |-> GraphView]
    /\ UNCHANGED <<lines, coord, nextId, uiVars, observed, dfsVars>>

AddLine ==
    /\ Fresh
    /\ Len(lines) < MaxLines
    /\ \E a \in Objects, b \in Objects :
          /\ lines' = addLine(lines, a, b)
          /\ call' = [op |-> "addLine", start |-> a, end |-> b, before |-> GraphView]
    /\ UNCHANGED <<points, coord, nextId, uiVars, observed, dfsVars>>

RemovePoint ==
    /\ Fresh
    /\ \E p \in Objects :
          LET after == removePoint(points, lines, p)
          IN  /\ points' = after.points
              /\ lines' = after.lines
              /\ call' = [op |-> "removePoint", point |-> p, before |-> GraphView]
    /\ UNCHANGED <<coord, nextId, uiVars, observed, dfsVars>>

RemovePoints ==
    /\ Fresh
    /\ \E toRemove \in SeqsUpTo(Objects, 2) :
          LET after == removePoints(points, lines, toRemove)
          IN  /\ points' = after.points
              /\ lines' = after.lines
              /\ call' = [op |-> "removePoints", pointsToRemove |-> toRemove,
                          before |-> GraphView]
    /\ UNCHANGED <<coord, nextId, uiVars, observed, dfsVars>>

FindPointNear ==
    /\ Fresh
    /\ \E target \in NearTargets :
          call' = [op |-> "findPointNear", target |-> target,
                   result |-> findPointNear(points, coord, target), before |-> GraphView]
    /\ UNCHANGED <<graphVars, uiVars, observed, dfsVars>>

Clear ==
    /\ Fresh
    /\ points' = clear.points
    /\ lines' = clear.lines
    /\ call' = [op |-> "clear", before |-> GraphView]
    /\ UNCHANGED <<coord, nextId, uiVars, observed, dfsVars>>

NextGraph ==
    \/ AddPoint
    \/ AddLine
    \/ RemovePoint
    \/ RemovePoints
    \/ FindPointNear
    \/ Clear

SpecGraph == InitGraph /\ [][NextGraph]_vars

----------------------------------------------------------------------------
(* findConnectedComponents, one loop iteration at a time *)

\* objects 1 and 2 are in the point collection, the others are not; any lines
InitDfsGraph == InitAnyGraph({ <<1, 2>> }, MaxDfsLines)

Running == call.op = "findConnectedComponents" /\ call.pc = "running"

\* the call: visited = new Set(), stack = [startPoint]
DfsCall ==
    /\ Fresh
    /\ \E startPoint \in Objects :
          /\ visited' = <<>>
          /\ stack' = <<startPoint>>
          /\ call' = [op |-> "findConnectedComponents", startPoint |-> startPoint,
                      pc |-> "running", result |-> <<>>]
    /\ UNCHANGED <<graphVars, uiVars, observed, commits>>

\* while (stack.length > 0) { ... }
DfsStep ==
    /\ Running
    /\ stack # <<>>
    /\ LET it == DfsIteration(lines, visited, stack)
       IN  /\ visited' = it.visited
           /\ stack' = it.stack
    /\ UNCHANGED <<graphVars, uiVars, observed, call, commits>>

\* return Array.from(visited)
DfsReturn ==
    /\ Running
    /\ stack = <<>>
    /\ call' = [call EXCEPT !.pc = "returned", !.result = visited]
    /\ UNCHANGED <<graphVars, uiVars, observed, dfsVars>>

NextDfs == DfsCall \/ DfsStep \/ DfsReturn

SpecDfs == InitDfsGraph /\ [][NextDfs]_vars

\* a call that has started keeps running: nothing else is scheduled inside it
SpecDfsFair == SpecDfs /\ WF_vars(DfsStep) /\ WF_vars(DfsReturn)

----------------------------------------------------------------------------
(* The coordinate transforms applied to bounded inputs *)

GridSteps == 11

\* bounding rectangles of the canvas, in pixels
Rects ==
    { [left |-> 0, top |-> 0, width |-> 200, height |-> 200],
      [left |-> 10, top |-> 20, width |-> 200, height |-> 100],
      [left |-> 0, top |-> 10, width |-> 100, height |-> 200] }

\* event.clientX / event.clientY
ScreenInputs ==
    { ScreenPoint(20 * i, 20 * j) : i \in -1..GridSteps, j \in -1..GridSteps }

\* normalized points of the closed unit disk
NormalizedInputs ==
    { NormalizedPoint(100 * i - Q, 100 * j - Q) : i \in 0..(2 * GridSteps - 2), j \in 0..(2 * GridSteps - 2) }

InitGeom ==
    /\ InitGraphEmpty
    /\ InitUi
    /\ InitDfs
    /\ call = [op |-> "init"]

ScreenToNormalized ==
    /\ Fresh
    /\ \E rect \in Rects, p \in ScreenInputs :
           call' = [op |-> "screenToNormalized", point |-> p, rect |-> rect,
                    result |-> getNormalizedPointFromScreenPoint(p, rect)]
    /\ UNCHANGED <<graphVars, uiVars, observed, dfsVars>>

NormalizedToHyperbolic ==
    /\ Fresh
    /\ \E p \in NormalizedInputs :
           /\ p.x * p.x + p.y * p.y <= Q * Q
           /\ call' = [op |-> "normalizedToHyperbolic", point |-> p,
                       result |-> getHyperbolicPointFromNormalizedPoint(p)]
    /\ UNCHANGED <<graphVars, uiVars, observed, dfsVars>>

\* finite hyperbolic coordinates, in units of 1/Q
HyperbolicGrid == {-3000, -1000, -500, -82, 0, 82, 250, 500, 1000, 3000}

HyperbolicInputs == { HyperbolicPoint(x, y) : x \in HyperbolicGrid, y \in HyperbolicGrid }

HyperbolicToNormalized ==
    /\ Fresh
    /\ \E p \in HyperbolicInputs :
           call' = [op |-> "hyperbolicToNormalized", point |-> p,
                    result |-> getNormalizedPointFromHyperbolicPoint(p)]
    /\ UNCHANGED <<graphVars, uiVars, observed, dfsVars>>

\* normalizedToHyperbolic(hyperbolicToNormalized(p))
RoundTrip ==
    /\ Fresh
    /\ \E p \in HyperbolicInputs :
           call' = [op |-> "roundTrip", point |-> p,
                    result |-> getHyperbolicPointFromNormalizedPoint(
                                   getNormalizedPointFromHyperbolicPoint(p))]
    /\ UNCHANGED <<graphVars, uiVars, observed, dfsVars>>

\* hyperbolic coordinates of line endpoints, in units of 1/Q: the circles of
\* all their pairs stay within ArcLimit
ArcGrid == {-8000, -1000, -500, 0, 500, 3000}

ArcInputs == { HyperbolicPoint(x, y) : x \in ArcGrid, y \in ArcGrid }

\* geodesicArc of the line from start to end, with the normalized images
\* u and v of its endpoints
GeodesicArc ==
    /\ Fresh
    /\ \E startH \in ArcInputs, endH \in ArcInputs :
           call' = [op |-> "geodesicArc", start |-> startH, end |-> endH,
                    u |-> getNormalizedPointFromHyperbolicPoint(startH),
                    v |-> getNormalizedPointFromHyperbolicPoint(endH),
                    result |-> getNormalizedArcFromHyperbolicLine(startH, endH)]
    /\ UNCHANGED <<graphVars, uiVars, observed, dfsVars>>

NextGeom ==
    \/ ScreenToNormalized
    \/ NormalizedToHyperbolic
    \/ HyperbolicToNormalized
    \/ RoundTrip
    \/ GeodesicArc

SpecGeom == InitGeom /\ [][NextGeom]_vars

----------------------------------------------------------------------------
(* One Select-mode click on any bounded graph whose points lie apart *)

\* the points an Add-mode click stores at normalized (-0.4, 0), (0.4, 0),
\* (0, 0.5) and, for every further object, (0, -0.5)
SelectCoord ==
    [o \in Objects |->
        getHyperbolicPointFromNormalizedPoint(
            IF o = 1 THEN NormalizedPoint(-400, 0)
            ELSE IF o = 2 THEN NormalizedPoint(400, 0)
            ELSE IF o = 3 THEN NormalizedPoint(0, 500)
            ELSE NormalizedPoint(0, -500))]

\* event.clientX / clientY: the disk's centre (on the straight lines through
\* it), a place on the arc between objects 2 and 3, the place of object 1 and
\* empty space
SelectClickPoints ==
    { ScreenPoint(100, 100), ScreenPoint(121, 82), ScreenPoint(60, 100),
      ScreenPoint(100, 160) }

\* every object stored once, any lines, Shift up or down, nothing or object 1
\* selected
InitSelect ==
    /\ points = [i \in Objects |-> i]
    /\ lines \in SeqsUpTo(AllLines, MaxLines)
    /\ coord = SelectCoord
    /\ nextId = NumObjects + 1
    /\ mode = "Select"
    /\ shiftKeyPressed \in BOOLEAN
    /\ firstSelectedPoint = NoPoint
    /\ editingPoints \in { <<>>, <<1>> }
    /\ hoveredPoint = NoPoint
    /\ currentMousePosition = Undefined
    /\ translatingPoints = <<>>
    /\ originalNormalizedMousePoint = Undefined
    /\ observed = EmptyGraphView
    /\ InitDfs
    /\ call = [op |-> "init"]

\* the click handler, once
SelectClick ==
    /\ Fresh
    /\ \E screenPoint \in SelectClickPoints : ClickAt(screenPoint)

NextSelect == SelectClick

SpecSelect == InitSelect /\ [][NextSelect]_vars

----------------------------------------------------------------------------
(* Claims about PoincareGraph (SpecGraph, SpecDfs, SpecDfsFair) *)

References(line, p) == line.start = p \/ line.end = p

\* C1: cascade delete.  After removePoint(p), whatever the graph state was,
\* the point collection does not contain p and no remaining Line has p as
\* start or end.
C1_CascadeDelete ==
    call.op = "removePoint" =>
        /\ \A i \in 1..Len(points) : points[i] # call.point
        /\ \A i \in 1..Len(lines) : ~References(lines[i], call.point)

\* C1 witness: p was stored twice, was the end of one line and the start of
\* another, and both lines are gone
C1_Witness ==
    /\ call.op = "removePoint"
    /\ call.before.points = <<call.point, call.point>>
    /\ Len(call.before.lines) = 2
    /\ call.before.lines[1].end = call.point /\ call.before.lines[1].start # call.point
    /\ call.before.lines[2].start = call.point /\ call.before.lines[2].end # call.point
    /\ lines = <<>>

\* the points joined to p by one Line, read in either direction
Neighbours(ls, p) ==
    { ls[i].end : i \in { j \in 1..Len(ls) : ls[j].start = p } }
        \cup { ls[i].start : i \in { j \in 1..Len(ls) : ls[j].end = p } }

RECURSIVE Closure(_, _)
Closure(ls, S) ==
    LET next == S \cup UNION { Neighbours(ls, p) : p \in S }
    IN  IF next = S THEN S ELSE Closure(ls, next)

\* the points connected to p by a path of Lines, p included
Reachable(ls, p) == Closure(ls, {p})

Returned == call.op = "findConnectedComponents" /\ call.pc = "returned"

\* C4: findConnectedComponents(start) returns exactly the points connected
\* to start by a path of Lines read as undirected edges, start included,
\* and lists no point twice.
C4_ExactReachability ==
    Returned =>
        /\ Range(call.result) = Reachable(lines, call.startPoint)
        /\ call.startPoint \in Range(call.result)
        /\ \A i, j \in 1..Len(call.result) : call.result[i] = call.result[j] => i = j

\* C4 witness: lines A-B and B-C and an isolated D; from A the result is {A, B, C}
C4_Witness ==
    /\ Returned
    /\ lines = <<Line(1, 2), Line(2, 3)>>
    /\ call.startPoint = 1
    /\ Range(call.result) = {1, 2, 3}
    /\ Len(call.result) = 3

\* normalized position of a stored point
NormalizedOf(p) == getNormalizedPointFromHyperbolicPoint(coord[p])

\* squared normalized distance of a stored point to the target, in units of 1/Q^2
DistSq(p, target) ==
    (NormalizedOf(p).x - target.x) * (NormalizedOf(p).x - target.x)
        + (NormalizedOf(p).y - target.y) * (NormalizedOf(p).y - target.y)

\* positions of the point collection strictly within 0.03 of the target
Within(target) ==
    { i \in 1..Len(points) :
        /\ NormalizedOf(points[i]).x # NaN
        /\ DistSq(points[i], target) < ((3 * Q) \div 100) * ((3 * Q) \div 100) }

\* C5: findPointNear is first-match with the strict threshold 0.03: it
\* returns the earliest point, in insertion order, strictly closer than 0.03
\* to the target in normalized space, even when a later point is closer, and
\* none when there is no such point.
C5_FirstMatch ==
    call.op = "findPointNear" =>
        IF Within(call.target) = {} THEN call.result = NoPoint
        ELSE call.result = points[CHOOSE i \in Within(call.target) :
                                      \A j \in Within(call.target) : i <= j]

\* C5 witness: the first stored point is returned although the second one
\* is strictly closer to the target
C5_Witness ==
    /\ call.op = "findPointNear"
    /\ Len(points) = 2
    /\ points[1] # points[2]
    /\ call.result = points[1]
    /\ DistSq(points[2], call.target) < DistSq(points[1], call.target)

\* C7: every call of findConnectedComponents returns, whatever the lines
\* are (cycles, self-loops, duplicate lines, endpoints that are not in the
\* point collection).
C7_DfsTerminates == Running ~> Returned

\* C7 witness: a call returned on a graph with a cycle, a self-loop and a
\* line whose endpoints are not in the point collection
C7_Witness ==
    /\ Returned
    /\ lines = <<Line(1, 3), Line(3, 1), Line(3, 3)>>
    /\ 3 \notin Range(points)
    /\ call.startPoint = 1

----------------------------------------------------------------------------
(* Claims about the interaction (Spec) *)

\* C2 (as claimed): no dangling edges.  In every state the events can
\* reach, both endpoints of every Line in graph.lines are members of
\* graph.points.
C2_NoDanglingEdges ==
    \A i \in 1..Len(lines) :
        lines[i].start \in Range(points) /\ lines[i].end \in Range(points)

\* C3: distinct endpoints.  In every state the events can reach, every Line
\* in graph.lines has two different point identities as start and end.
C3_DistinctEndpoints == \A i \in 1..Len(lines) : lines[i].start # lines[i].end

\* C3 witness: a line was made in a Shift chain and its end is the pending
\* first point, so the next click on that point is the self-loop case
C3_Witness ==
    /\ mode = "Add"
    /\ shiftKeyPressed
    /\ Len(lines) = 1
    /\ firstSelectedPoint = lines[1].end
    /\ lines[1].end \in Range(points)

\* C6: removals are atomic towards collaborators.  After the Delete/
\* Backspace handler removed the selection, what onStateChange() showed of
\* the graph is the finished removal: none of the removed points and no
\* Line referencing one of them, and nothing newer than what it showed.
C6_RemovalAtomic ==
    call.op = "delete" =>
        /\ observed = GraphView
        /\ \A p \in Range(call.removed) :
              /\ p \notin Range(observed.points)
              /\ \A i \in 1..Len(observed.lines) : ~References(observed.lines[i], p)

\* C6 witness: a removed point was the endpoint of a line, and the line went with it
C6_Witness ==
    /\ call.op = "delete"
    /\ \E p \in Range(call.removed) :
          /\ p \in Range(call.before.points)
          /\ \E i \in 1..Len(call.before.lines) : References(call.before.lines[i], p)
    /\ observed.lines = <<>>

----------------------------------------------------------------------------
(* Claims about the coordinate transforms (SpecGeom) *)

\* the screen point lies outside the viewport rectangle
OutsideRect(p, rect) ==
    \/ p.x < rect.left \/ p.x > rect.left + rect.width
    \/ p.y < rect.top \/ p.y > rect.top + rect.height

\* twice the offset of the screen point from the rectangle's centre, y upwards
OffsetX2(p, rect) == 2 * (p.x - rect.left) - rect.width

OffsetY2(p, rect) == rect.height - 2 * (p.y - rect.top)

ShorterSide(rect) == IF rect.width <= rect.height THEN rect.width ELSE rect.height

\* C8: screenToNormalized returns none exactly when the screen point is
\* outside the viewport rectangle or its mapped point is outside the unit
\* disk; otherwise it returns the offset from the rectangle's centre divided
\* by half of the shorter side, with the vertical axis negated.
C8_ScreenToNormalizedDomain ==
    call.op = "screenToNormalized" =>
        LET p == call.point
            rect == call.rect
            m == ShorterSide(rect)
            dx == OffsetX2(p, rect)
            dy == OffsetY2(p, rect)
            none == OutsideRect(p, rect) \/ dx * dx + dy * dy > m * m
        IN  /\ (call.result = Undefined) <=> none
            /\ ~none => /\ call.result.type = "Normalized"
                         /\ call.result.x * m = dx * Q
                         /\ call.result.y * m = dy * Q

\* C8 witness: a point inside the rectangle but outside the disk is refused
C8_Witness ==
    /\ call.op = "screenToNormalized"
    /\ ~OutsideRect(call.point, call.rect)
    /\ call.result = Undefined

\* C9 (as claimed): every point screenToNormalized returns lies strictly
\* inside the unit disk, x^2 + y^2 < 1.
C9_OpenDisk ==
    (call.op = "screenToNormalized" /\ call.result # Undefined) =>
        call.result.x * call.result.x + call.result.y * call.result.y < Q * Q

\* C10: normalizedToHyperbolic returns none at the exact disk centre and a
\* HyperbolicPoint for every other input of the disk.
C10_CentreIsNone ==
    call.op = "normalizedToHyperbolic" =>
        /\ (call.point.x = 0 /\ call.point.y = 0) => call.result = Undefined
        /\ ~(call.point.x = 0 /\ call.point.y = 0) => call.result.type = "Hyperbolic"

\* C10 witness: the centre was converted and refused
C10_Witness ==
    /\ call.op = "normalizedToHyperbolic"
    /\ call.point = NormalizedPoint(0, 0)
    /\ call.result = Undefined

\* C11 (as claimed): the boundary is guarded.  For an input at or beyond
\* unit distance, normalizedToHyperbolic returns none or finite coordinates:
\* atanh is never applied at +-1.
C11_BoundaryGuarded ==
    (/\ call.op = "normalizedToHyperbolic"
     /\ call.point.x * call.point.x + call.point.y * call.point.y >= Q * Q)
        => \/ call.result = Undefined
           \/ IsFinite(call.result.x) /\ IsFinite(call.result.y)

\* C12 (as claimed): containment.  For every finite hyperbolic point,
\* hyperbolicToNormalized returns numbers (the radicand is not negative)
\* and the point is strictly inside the unit disk.
C12_Containment ==
    call.op = "hyperbolicToNormalized" =>
        /\ call.result.x # NaN /\ call.result.y # NaN
        /\ call.result.x * call.result.x + call.result.y * call.result.y < Q * Q

\* C13 (as claimed): round trip.  For every finite hyperbolic point p other
\* than (0,0), normalizedToHyperbolic(hyperbolicToNormalized(p)) returns a
\* point and each coordinate is within 0.02 of p's.
C13_RoundTrip ==
    (call.op = "roundTrip" /\ (call.point.x # 0 \/ call.point.y # 0)) =>
        /\ call.result # Undefined
        /\ IsFinite(call.result.x) /\ IsFinite(call.result.y)
        /\ Abs(call.result.x - call.point.x) <= 20
        /\ Abs(call.result.y - call.point.y) <= 20

\* u1 * v2 - u2 * v1 of the call's endpoints, in units of 1/Q^2
Determinant == call.u.x * call.v.y - call.u.y * call.v.x

\* the endpoints of the call's line have numbers as normalized coordinates
NumericEndpoints == call.u.x # NaN /\ call.v.x # NaN

\* C14: orthogonality.  For every line whose arc is not degenerate, the
\* radius is a non-negative real number and distance(center, origin)^2 =
\* radius^2 + 1 up to the rounding of the square root.
C14_Orthogonality ==
    (call.op = "geodesicArc" /\ NumericEndpoints /\ Determinant # 0) =>
        /\ call.result.radius # NaN
        /\ call.result.radius >= 0
        /\ Abs(call.result.center.x * call.result.center.x
                  + call.result.center.y * call.result.center.y
                  - call.result.radius * call.result.radius - Q * Q)
               <= call.result.radius + 1

\* C14 witness: a line between two points off the axes, on a circle of
\* more than one disk radius
C14_Witness ==
    /\ call.op = "geodesicArc"
    /\ NumericEndpoints
    /\ Determinant # 0
    /\ call.u.x # 0 /\ call.u.y # 0 /\ call.v.x # 0 /\ call.v.y # 0
    /\ call.result.radius > Q
    /\ IsFinite(call.result.radius)

\* C15 (as claimed): degenerate geodesic.  A line whose endpoints are
\* collinear with the origin gives isStraight = true, center (0,0) and the
\* infinite radius; every other line gives isStraight = false and a finite
\* center.
C15_DegenerateGeodesic ==
    call.op = "geodesicArc" =>
        IF NumericEndpoints /\ Determinant = 0
        THEN /\ call.result.isStraight
             /\ call.result.center = NormalizedPoint(0, 0)
             /\ call.result.radius = Infinity
        ELSE /\ ~call.result.isStraight
             /\ IsFinite(call.result.center.x)
             /\ IsFinite(call.result.center.y)

----------------------------------------------------------------------------
(* Claims about the handlers, one event at a time (Spec, SpecGraph) *)

\* the screen point is outside the canvas rectangle or maps beyond the unit circle
OutOfDomain(sp) ==
    \/ OutsideRect(sp, CanvasRect)
    \/ OffsetX2(sp, CanvasRect) * OffsetX2(sp, CanvasRect)
           + OffsetY2(sp, CanvasRect) * OffsetY2(sp, CanvasRect)
         > ShorterSide(CanvasRect) * ShorterSide(CanvasRect)

AtCentre(sp) == OffsetX2(sp, CanvasRect) = 0 /\ OffsetY2(sp, CanvasRect) = 0

\* the step is the click handler run on sp (the record it leaves is tested first)
ClickStep(sp) == call' = [op |-> "click", point |-> sp] /\ ClickAt(sp)

\* the step is the dblclick handler run on sp
DblClickStep(sp) == call' = [op |-> "dblclick", point |-> sp] /\ DblClickAt(sp)

\* the stored point a click at sp lands on, NoPoint on empty space
PointAt(sp) ==
    findPointNear(points, coord, getNormalizedPointFromScreenPoint(sp, CanvasRect))

\* C16: out-of-domain input is a no-op.  A click or double-click outside
\* the canvas rectangle or outside the disk, and an Add-mode click on
\* empty space at the exact disk centre, leave graph.points and
\* graph.lines as they were.
C16_OutOfDomainNoOp ==
    [][\A sp \in ClickPoints :
          (\/ OutOfDomain(sp) /\ (ClickStep(sp) \/ DblClickStep(sp))
           \/ mode = "Add" /\ AtCentre(sp) /\ ClickStep(sp) /\ PointAt(sp) = NoPoint)
              => points' = points /\ lines' = lines]_vars

\* C16 witness: the last event was an out-of-domain click in Add mode, with
\* a first point pending and points in the graph
C16_Witness ==
    /\ call.op = "click"
    /\ OutOfDomain(call.point)
    /\ mode = "Add"
    /\ firstSelectedPoint \in Range(points)

\* C17: Delete removes the selection.  Delete or Backspace with a
\* non-empty selection removes every selected point and every Line with a
\* selected endpoint and empties the selection; with an empty selection it
\* changes nothing.
C17_DeleteRemovesSelection ==
    [][\A key \in {"Delete", "Backspace"} :
          KeyDownOf(key) =>
              IF editingPoints # <<>>
              THEN /\ \A p \in Range(editingPoints) :
                         /\ p \notin Range(points')
                         /\ \A i \in 1..Len(lines') : ~References((lines')[i], p)
                   /\ editingPoints' = <<>>
              ELSE UNCHANGED <<graphVars, uiVars>>]_vars

\* C17 witness: two selected points and the line between them were removed
C17_Witness ==
    /\ call.op = "delete"
    /\ Len(call.removed) = 2
    /\ Len(call.before.lines) = 1
    /\ Range(call.removed) = {call.before.lines[1].start, call.before.lines[1].end}
    /\ points = <<>>
    /\ lines = <<>>

\* C18 (as claimed): Esc cancels the pending operation.  In Translate mode
\* with a translation in progress it clears the translation state and the
\* coordinates stay as they were; in Add mode it clears the pending first
\* point.
C18_EscCancels ==
    [][KeyDownOf("Escape") =>
          /\ (mode = "Translate" /\ translatingPoints # <<>>) =>
                 /\ translatingPoints' = <<>>
                 /\ originalNormalizedMousePoint' = Undefined
                 /\ coord' = coord
          /\ mode = "Add" => firstSelectedPoint' = NoPoint]_vars

\* C19: addPoint and addLine do not validate.  Each call appends exactly
\* one entry at the end of its own collection, whatever is already stored,
\* and leaves the other collection as it was.
C19_NoValidation ==
    /\ call.op = "addPoint" =>
           /\ Len(points) = Len(call.before.points) + 1
           /\ points[Len(points)] = call.point
           /\ SubSeq(points, 1, Len(points) - 1) = call.before.points
           /\ lines = call.before.lines
    /\ call.op = "addLine" =>
           /\ Len(lines) = Len(call.before.lines) + 1
           /\ lines[Len(lines)].start = call.start
           /\ lines[Len(lines)].end = call.end
           /\ SubSeq(lines, 1, Len(lines) - 1) = call.before.lines
           /\ points = call.before.points

\* C19 witness: a point that was already stored was stored again
C19_Witness ==
    /\ call.op = "addPoint"
    /\ call.point \in Range(call.before.points)
    /\ points = <<call.point, call.point>>

\* C20: Add-mode line creation.  With no first point pending, a click on an
\* existing point P makes P the pending first point and adds nothing; with
\* P pending, a click on a different existing point Q appends exactly the
\* Line from P to Q and no point, and leaves Q pending when Shift is held
\* and nothing pending otherwise.
C20_AddModeLine ==
    [][\A sp \in ClickPoints :
          (/\ mode = "Add"
           /\ ClickStep(sp)
           /\ getNormalizedPointFromScreenPoint(sp, CanvasRect) # Undefined
           /\ PointAt(sp) # NoPoint) =>
              /\ firstSelectedPoint = NoPoint =>
                     /\ firstSelectedPoint' = PointAt(sp)
                     /\ lines' = lines
                     /\ points' = points
              /\ (firstSelectedPoint \in Range(points) /\ firstSelectedPoint # PointAt(sp)) =>
                     /\ lines' = Append(lines, Line(firstSelectedPoint, PointAt(sp)))
                     /\ points' = points
                     /\ firstSelectedPoint' = IF shiftKeyPressed THEN PointAt(sp) ELSE NoPoint]_vars

\* C20 witness: the line from the second point to the first one; both were
\* there when the click that made it landed on the first one, without Shift
C20_Witness ==
    /\ call.op = "click"
    /\ mode = "Add"
    /\ Range(points) = {1, 2}
    /\ lines = <<Line(2, 1)>>
    /\ firstSelectedPoint = NoPoint
    /\ ~shiftKeyPressed

----------------------------------------------------------------------------
(* Claims about the arc angles, the translation and the selection
   (SpecGeom, Spec, SpecSelect, SpecGraph) *)

\* an angle reduced to [0, 2 pi)
Mod2Pi(angle) == angle % (2 * PI)

\* the direction of the normalized point p seen from the centre of the arc
DirectionFrom(arc, p) == Atan2(p.y - arc.center.y, p.x - arc.center.x)

\* the sweep from the start of the arc to its end, by increasing angles
SweepOf(arc) == Mod2Pi(arc.endAngle - arc.startAngle)

NonDegenerateArc ==
    /\ call.op = "geodesicArc"
    /\ ~call.result.isStraight
    /\ call.result.startAngle # NaN

\* C21: the arc of a non-degenerate line sweeps at most pi from startAngle to
\* endAngle by increasing angles modulo 2 pi; its two ends are the directions
\* of the two endpoints from the centre, exchanged exactly when the sweep from
\* the first endpoint to the second exceeds pi
C21_MinorArc ==
    NonDegenerateArc =>
        LET arc == call.result
            au == DirectionFrom(arc, call.u)
            av == DirectionFrom(arc, call.v)
            swapped == Mod2Pi(av - au) > PI
        IN  /\ SweepOf(arc) <= PI
            /\ Mod2Pi(arc.startAngle) = Mod2Pi(IF swapped THEN av ELSE au)
            /\ Mod2Pi(arc.endAngle) = Mod2Pi(IF swapped THEN au ELSE av)

\* a line whose second endpoint is more than pi ahead of its first, so that
\* the angles were exchanged
C21_Witness ==
    /\ NonDegenerateArc
    /\ Mod2Pi(DirectionFrom(call.result, call.v)
              - DirectionFrom(call.result, call.u)) > PI
    /\ call.result.startAngle > call.result.endAngle
    /\ SweepOf(call.result) > 0

\* removePoint applied to each element of seq in turn, from [points, lines]
RECURSIVE RemoveEach(_, _)
RemoveEach(graph, seq) ==
    IF seq = <<>> THEN graph
    ELSE RemoveEach(removePoint(graph.points, graph.lines, Head(seq)), Tail(seq))

\* the lists that hold the elements of seq in some order
Orders(seq) ==
    { [i \in 1..Len(seq) |-> seq[f[i]]] : f \in Permutations(1..Len(seq)) }

\* C24: removePoints(S) leaves the same points and the same lines, in the same
\* order, as removePoint applied to the elements of S one by one in any
\* order, for every graph state and every list S, duplicates and non-members
\* included
C24_RemovePointsIsIteratedRemovePoint ==
    call.op = "removePoints" =>
        \A order \in Orders(call.pointsToRemove) :
            RemoveEach(call.before, order) = GraphView

\* two different elements, one stored and one only referenced by a line, and
\* a line of each removed while a point and a line stay
C24_Witness ==
    /\ call.op = "removePoints"
    /\ Len(call.pointsToRemove) = 2
    /\ call.pointsToRemove[1] # call.pointsToRemove[2]
    /\ call.pointsToRemove[1] \notin Range(call.before.points)
    /\ call.pointsToRemove[2] \in Range(call.before.points)
    /\ \E i \in 1..Len(call.before.lines) :
           References(call.before.lines[i], call.pointsToRemove[1])
    /\ Len(points) < Len(call.before.points)
    /\ Len(lines) < Len(call.before.lines)
    /\ points # <<>>

\* C25: removePoint(p) keeps every point other than p and every Line with
\* neither endpoint p, with multiplicity and order; it leaves a graph that
\* does not refer to p unchanged, so that applying it again changes nothing
C25_RemovePointFrame ==
    call.op = "removePoint" =>
        LET IsOther(q) == q # call.point
            IsUnrelated(line) == ~References(line, call.point)
            unreferenced ==
                /\ call.point \notin Range(call.before.points)
                /\ \A i \in 1..Len(call.before.lines) :
                       IsUnrelated(call.before.lines[i])
        IN  /\ points = SelectSeq(call.before.points, IsOther)
            /\ lines = SelectSeq(call.before.lines, IsUnrelated)
            /\ unreferenced => GraphView = call.before
            /\ removePoint(points, lines, call.point) = GraphView

\* p was stored before another point and was an endpoint of the first of two
\* lines: the other point and the other line stay
C25_Witness ==
    /\ call.op = "removePoint"
    /\ Len(call.before.points) = 2
    /\ call.before.points[1] = call.point
    /\ points = <<call.before.points[2]>>
    /\ Len(call.before.lines) = 2
    /\ lines = <<call.before.lines[2]>>

\* C26: whenever the mode is not Add, no first point of a line is pending
C26_NoPendingOutsideAdd == mode # "Add" => firstSelectedPoint = NoPoint

\* setMode left Add mode while a first point was pending, and cleared it
C26_Witness ==
    /\ call.op = "setMode"
    /\ call.pendingBefore
    /\ mode # "Add"
    /\ firstSelectedPoint = NoPoint

\* C27: whenever the mode is not Translate, translatingPoints is empty and
\* originalNormalizedMousePoint is undefined
C27_TranslationCleared ==
    mode # "Translate" =>
        /\ translatingPoints = <<>>
        /\ originalNormalizedMousePoint = Undefined

\* setMode left Translate mode with copies of the selection and a reference
\* mouse position, and cleared both
C27_Witness ==
    /\ call.op = "setMode"
    /\ call.translationBefore
    /\ mode # "Translate"
    /\ translatingPoints = <<>>
    /\ originalNormalizedMousePoint = Undefined

\* C28: every point of the selection is stored in graph.points
C28_SelectionStored ==
    \A i \in 1..Len(editingPoints) : editingPoints[i] \in Range(points)

\* normalizedToHyperbolic of the position of the event that made the step
HyperbolicOfEvent(record) ==
    IF record.op \in {"click", "dblclick"}
    THEN LET normalizedPoint == getNormalizedPointFromScreenPoint(record.point, CanvasRect)
         IN  IF normalizedPoint = Undefined THEN Undefined
             ELSE getHyperbolicPointFromNormalizedPoint(normalizedPoint)
    ELSE Undefined

\* h moved by the difference of two Hyperbolic points: arithmetic within the
\* Hyperbolic frame
MovedInHyperbolicFrame(h, to, from) ==
    HyperbolicPoint(h.x + to.x - from.x, h.y + to.y - from.y)

\* the Hyperbolic image of the translation's reference mouse position
HyperbolicReference ==
    IF originalNormalizedMousePoint = Undefined THEN Undefined
    ELSE getHyperbolicPointFromNormalizedPoint(originalNormalizedMousePoint)

NumericPoint(h) ==
    /\ h # Undefined
    /\ IsFinite(h.x) /\ IsFinite(h.y)

\* C22: the coordinates stored in a graph point are only ever produced by
\* normalizedToHyperbolic or by arithmetic within the Hyperbolic frame.  After
\* every step each stored point has the coordinates it had, or the
\* normalizedToHyperbolic image of the position of the event, or the copy made
\* on entering Translate mode moved by the difference of the Hyperbolic images
\* of the event's position and of the reference position
C22_FrameSeparation ==
    [][\A i \in 1..Len(coord') :
           \/ i <= Len(coord) /\ coord'[i] = coord[i]
           \/ coord'[i] = HyperbolicOfEvent(call')
           \/ /\ NumericPoint(HyperbolicOfEvent(call'))
              /\ NumericPoint(HyperbolicReference)
              /\ \E k \in 1..Len(translatingPoints) :
                     /\ IsFinite(translatingPoints[k].x)
                     /\ IsFinite(translatingPoints[k].y)
                     /\ coord'[i] = MovedInHyperbolicFrame(translatingPoints[k],
                                                           HyperbolicOfEvent(call'),
                                                           HyperbolicReference)]_vars

\* the clicked position in normalized space
NormalizedOfClick == getNormalizedPointFromScreenPoint(call.point, CanvasRect)

\* the indices of the lines that pass the hit test of the clicked position
HitLines ==
    { i \in 1..Len(lines) :
          LineHit(coord[lines[i].start], coord[lines[i].end], NormalizedOfClick) }

\* a Select-mode click without Shift that hit no point but hit a line
LineClicked ==
    /\ call.op = "click"
    /\ mode = "Select"
    /\ ~shiftKeyPressed
    /\ NormalizedOfClick # Undefined
    /\ findPointNear(points, coord, NormalizedOfClick) = NoPoint
    /\ HitLines # {}

\* C23: a Select-mode click without Shift that hits no point but hits a line
\* sets the selection to the start and the end of the first line of
\* graph.lines that passes the hit test, also when several lines share their
\* end point
C23_LineClickSelectsEndpoints ==
    LineClicked =>
        LET hit == lines[CHOOSE i \in HitLines : \A j \in HitLines : i <= j]
        IN  editingPoints = <<hit.start, hit.end>>

====
